---- MODULE Spec2Model ----
(***************************************************************************)
(* A model of autocut/transcribe.py: the Transcribe class (run,            *)
(* _detect_voice_activity, _transcribe, _save_srt, _save_md,               *)
(* _save_full_text) and the module-level function process.                 *)
(*                                                                         *)
(* Units.  Sample offsets (the "start"/"end" of a span) are integers.      *)
(* A time the code holds as a float of t seconds is held here as the       *)
(* integer t * sampling_rate, so origin["start"] / self.sampling_rate is   *)
(* held as origin.start itself and 1.0 as sampling_rate.  The arithmetic   *)
(* is exact (the code's is in binary floating point).                      *)
(***************************************************************************)
EXTENDS Naturals, Integers, Sequences, FiniteSets, TLC

VARIABLES
    pc,                 \* position of the main thread
    args,               \* self.args: inputs, force, vad, device
    world,              \* per input file: what the collaborators return for it
    runs,               \* number of calls of run() so far
    idx,                \* position of run's for loop in args.inputs (1-based)
    fs,                 \* the file system: path -> [exists, data]
    audio,              \* len(audio) of the loaded buffer
    speech_timestamps,  \* run's local: the spans handed to _transcribe
    tasks,              \* _transcribe's res: one AsyncResult per submitted span
    done_order,         \* history: span indexes in the order the workers finished
    transcribe_results, \* the list _transcribe returned / _save_srt received
    ri, si,             \* _save_srt's loop position: result, fragment (1-based)
    prev_end,           \* _save_srt's prev_end
    subs,               \* _save_srt's subs
    prov,               \* history: for each entry of subs, <<ri, si>> or <<0, 0>>
    parsed,             \* _save_full_text's subs, parsed from the .srt file
    ti,                 \* _save_full_text's loop position in parsed
    word_length,        \* _save_full_text's _word_length
    md_lines,           \* md.lines of the MD object in use
    hist                \* history: visited (inputs this call of run reached),
                        \* written (paths written for the current input),
                        \* completed (names run has finished, in any call),
                        \* failed (names whose transcription raised, this
                        \* call), vad (_detect_voice_activity was called)

vars == <<pc, args, world, runs, idx, fs, audio, speech_timestamps, tasks,
          done_order, transcribe_results, ri, si, prev_end, subs, prov, parsed,
          ti, word_length, md_lines, hist>>

runVars == <<args, world, runs, idx, audio, speech_timestamps, tasks, done_order>>
srtVars == <<ri, si, prev_end, prov>>
txtVars == <<parsed, ti, word_length, md_lines>>

(***************************************************************************)
(* Bounds of the model.                                                    *)
(***************************************************************************)
MaxPt == 3
MaxLocal == 2
MaxSize == 4

(***************************************************************************)
(* Program constants.                                                      *)
(***************************************************************************)
sampling_rate == 16000

\* The literal 1.0 of "start > prev_end + 1.0".
OneSecond == sampling_rate

Min(a, b) == IF a <= b THEN a ELSE b
Max(a, b) == IF a >= b THEN a ELSE b

(***************************************************************************)
(* Text.  A string is held as its body, the length of the body, the number *)
(* of whitespace characters around it and whether it has traditional       *)
(* characters.                                                             *)
(***************************************************************************)
Strip(t) == [t EXCEPT !.pad = 0]
Convert(t) == [t EXCEPT !.trad = FALSE]
Length(t) == t.len + t.pad
NoSpeech == [body |-> "< No Speech >", len |-> 13, pad |-> 0, trad |-> FALSE]
Speech == [body |-> "speech", len |-> 6, pad |-> 1, trad |-> TRUE]

(***************************************************************************)
(* Files.  An input is base[_cut].ext; os.path.splitext gives its name.    *)
(***************************************************************************)
Inputs == {[base |-> "a", cut |-> FALSE, ext |-> "mp4"],
           [base |-> "b", cut |-> TRUE, ext |-> "mp4"]}
Splitext(input) == [base |-> input.base, cut |-> input.cut]
Names == {Splitext(i) : i \in Inputs}
Path(name, suffix) == <<name, suffix>>
Paths == {Path(n, s) : n \in Names, s \in {".srt", ".md", "_full_text.md"}}
Absent == [exists |-> FALSE, data |-> <<>>]
File(data) == [exists |-> TRUE, data |-> data]
CurInput == args.inputs[idx]
CurName == Splitext(CurInput)

\* Four seconds of audio; the detector's two stretches are its first and
\* its last second.
RunLen == 4 * sampling_rate
RunSpeeches ==
    {<<>>,
     <<[start |-> 0, end |-> sampling_rate],
       [start |-> 3 * sampling_rate, end |-> 4 * sampling_rate]>>}
\* What the collaborators return for a file no call looks at.
NoWorld == [i \in Inputs |-> [readable |-> TRUE, len |-> RunLen, speeches |-> <<>>]]

NoHist == [visited |-> {}, written |-> {}, completed |-> {}, failed |-> {},
           vad |-> FALSE]

(***************************************************************************)
(* Segment geometry (autocut.utils) and _detect_voice_activity             *)
(***************************************************************************)
\* utils.remove_short_segments: drops every span shorter than min_length.
RemoveShortSegments(spans, min_length) ==
    LET Keep(s) == ~(s.end - s.start < min_length)
    IN SelectSeq(spans, Keep)

\* utils.expand_segments: pads every span, within [0, total_length].
ExpandSegments(spans, pad_start, pad_end, total_length) ==
    [k \in 1..Len(spans) |->
        [start |-> Max(spans[k].start - pad_start, 0),
         end |-> Min(spans[k].end + pad_end, total_length)]]

\* One step of the merge: s joins the last span of acc when the gap between
\* them is at most max_gap.
MergeOne(acc, s, max_gap) ==
    IF acc # <<>> /\ s.start - acc[Len(acc)].end <= max_gap
    THEN [acc EXCEPT ![Len(acc)] = [start |-> acc[Len(acc)].start, end |-> s.end]]
    ELSE Append(acc, s)

RECURSIVE MergeFrom(_, _, _, _)
MergeFrom(acc, spans, k, max_gap) ==
    IF k > Len(spans) THEN acc
    ELSE MergeFrom(MergeOne(acc, spans[k], max_gap), spans, k + 1, max_gap)

\* utils.merge_adjacent_segments
MergeAdjacentSegments(spans, max_gap) == MergeFrom(<<>>, spans, 1, max_gap)

\* The single span covering the whole buffer: [{"start": 0, "end": len(audio)}]
WholeBuffer(len) == <<[start |-> 0, end |-> len]>>

\* The sequence left after remove-short, expand and merge.
Cleaned(speeches, len) ==
    MergeAdjacentSegments(
        ExpandSegments(
            RemoveShortSegments(speeches, sampling_rate),
            (2 * sampling_rate) \div 10, 0, len),
        sampling_rate \div 2)

\* Fallback returning the cleaned sequence whenever it is not empty.
FallbackWhenEmpty(speeches, len) ==
    IF Len(speeches) >= 1 THEN speeches ELSE WholeBuffer(len)

\* return speeches if len(speeches) > 1 else [{"start": 0, "end": len(audio)}]
Fallback(speeches, len) ==
    IF Len(speeches) > 1 THEN speeches ELSE WholeBuffer(len)

DetectVoiceActivity(speeches, len) == Fallback(Cleaned(speeches, len), len)

(***************************************************************************)
(* run: the loop over args.inputs                                          *)
(***************************************************************************)
MaxRuns == 2
MaxInputs == 2

\* utils.check_exists: the output exists and overwriting is not forced.
CheckExists(path, force) == fs[path].exists /\ ~force

\* The gate of run looking at the full-text file instead of the .md file.
GateOnFullText(name) == CheckExists(Path(name, "_full_text.md"), args.force)

\* if utils.check_exists(name + ".md", self.args.force): continue
Gate(name) == CheckExists(Path(name, ".md"), args.force)

\* self.args.vad == "1" or self.args.vad == "auto" and not name.endswith("_cut")
VadWanted(name) == args.vad = "1" \/ (args.vad = "auto" /\ ~name.cut)

\* run is called: a further call may force overwriting or not.
StartRun ==
    /\ pc \in {"idle", "done", "crashed"}
    /\ runs < MaxRuns
    /\ runs' = runs + 1
    /\ \E f \in BOOLEAN : args' = [args EXCEPT !.force = f]
    /\ idx' = 1
    /\ pc' = "gate"
    /\ hist' = [hist EXCEPT !.visited = {}, !.written = {}, !.failed = {},
                            !.vad = FALSE]
    /\ UNCHANGED <<world, fs, audio, speech_timestamps, tasks, done_order,
                   transcribe_results, srtVars, subs, txtVars>>

RunGate ==
    /\ pc = "gate"
    /\ idx <= Len(args.inputs)
    /\ hist' = [hist EXCEPT !.visited = @ \cup {idx}, !.written = {},
                            !.vad = FALSE]
    /\ IF Gate(CurName)
       THEN /\ idx' = idx + 1
            /\ pc' = "gate"
       ELSE /\ idx' = idx
            /\ pc' = "load"
    /\ UNCHANGED <<args, world, runs, fs, audio, speech_timestamps, tasks,
                   done_order, transcribe_results, srtVars, subs, txtVars>>

\* The for loop is exhausted: run returns.
RunReturn ==
    /\ pc = "gate"
    /\ idx > Len(args.inputs)
    /\ pc' = "done"
    /\ UNCHANGED <<runVars, fs, transcribe_results, srtVars, subs, txtVars, hist>>

\* audio = whisper.load_audio(input, sr=self.sampling_rate); an unreadable
\* input raises, and nothing in run catches it.
LoadAudio ==
    /\ pc = "load"
    /\ IF world[CurInput].readable
       THEN /\ audio' = world[CurInput].len
            /\ pc' = "segment"
       ELSE /\ audio' = audio
            /\ pc' = "crashed"
    /\ UNCHANGED <<args, world, runs, idx, fs, speech_timestamps, tasks,
                   done_order, transcribe_results, srtVars, subs, txtVars, hist>>

Segment ==
    /\ pc = "segment"
    /\ IF VadWanted(CurName)
       THEN /\ speech_timestamps' = DetectVoiceActivity(world[CurInput].speeches, audio)
            /\ hist' = [hist EXCEPT !.vad = TRUE]
       ELSE /\ speech_timestamps' = WholeBuffer(audio)
            /\ hist' = hist
    /\ pc' = "transcribe"
    /\ UNCHANGED <<args, world, runs, idx, fs, audio, tasks, done_order,
                   transcribe_results, srtVars, subs, txtVars>>

(***************************************************************************)
(* _transcribe and process                                                 *)
(***************************************************************************)
PoolProcesses == 4

\* What whisper_model.transcribe may return for the slice of seg: nothing, or
\* one fragment from the start of the slice to one second past its end.
Transcriptions(seg) ==
    {<<>>,
     <<[start |-> 0, end |-> seg.end - seg.start + sampling_rate, text |-> Speech]>>}

\* r["origin_timestamp"] = seg
Process(r, seg) == [segments |-> r, origin_timestamp |-> seg]

\* The parallel branch is taken.
Parallel == args.device = "cpu" /\ Len(speech_timestamps) > 1

\* The loop over the spans going from the last span to the first.
NextSpanReversed == speech_timestamps[Len(speech_timestamps) - Len(tasks)]

\* for seg in speech_timestamps: the span of the next iteration.
NextSpan == speech_timestamps[Len(tasks) + 1]

TranscribeEnter ==
    /\ pc = "transcribe"
    /\ tasks' = <<>>
    /\ done_order' = <<>>
    /\ pc' = IF Parallel THEN "pool_submit" ELSE "sequential"
    /\ UNCHANGED <<args, world, runs, idx, fs, audio, speech_timestamps,
                   transcribe_results, srtVars, subs, txtVars, hist>>

\* One iteration of the sequential loop: transcribe raises, or its result is
\* appended to res.
SequentialStep ==
    /\ pc = "sequential"
    /\ Len(tasks) < Len(speech_timestamps)
    /\ LET seg == NextSpan
       IN \/ /\ \E r \in Transcriptions(seg) : tasks' = Append(tasks, Process(r, seg))
             /\ pc' = pc
             /\ hist' = hist
          \/ /\ tasks' = tasks
             /\ pc' = "crashed"
             /\ hist' = [hist EXCEPT !.failed = @ \cup {CurName}]
    /\ UNCHANGED <<args, world, runs, idx, fs, audio, speech_timestamps,
                   done_order, transcribe_results, srtVars, subs, txtVars>>

SequentialReturn ==
    /\ pc = "sequential"
    /\ Len(tasks) = Len(speech_timestamps)
    /\ transcribe_results' = tasks
    /\ pc' = "save_srt"
    /\ UNCHANGED <<runVars, fs, srtVars, subs, txtVars, hist>>

\* res.append(pool.apply_async(process, ...)) for the next span.
PoolSubmit ==
    /\ pc = "pool_submit"
    /\ Len(tasks) < Len(speech_timestamps)
    /\ tasks' = Append(tasks, [seg |-> NextSpan,
                               state |-> "queued", value |-> <<>>])
    /\ UNCHANGED <<args, world, runs, idx, fs, audio, speech_timestamps,
                   done_order, transcribe_results, srtVars, subs, txtVars, hist,
                   pc>>

\* pool.close(); pool.join() starts waiting.
PoolClose ==
    /\ pc = "pool_submit"
    /\ Len(tasks) = Len(speech_timestamps)
    /\ pc' = "pool_join"
    /\ UNCHANGED <<runVars, fs, transcribe_results, srtVars, subs, txtVars, hist>>

Running == {k \in 1..Len(tasks) : tasks[k].state = "running"}
Queued == {k \in 1..Len(tasks) : tasks[k].state = "queued"}

\* A free worker of the pool takes the oldest queued task.
WorkerStart ==
    /\ pc \in {"pool_submit", "pool_join"}
    /\ Queued # {}
    /\ Cardinality(Running) < PoolProcesses
    /\ LET k == CHOOSE q \in Queued : \A o \in Queued : q <= o
       IN tasks' = [tasks EXCEPT ![k].state = "running"]
    /\ UNCHANGED <<args, world, runs, idx, fs, audio, speech_timestamps,
                   done_order, transcribe_results, srtVars, subs, txtVars, hist,
                   pc>>

\* A worker's call of process returns or raises; the AsyncResult keeps the
\* value or the exception.
WorkerFinish(k) ==
    /\ pc \in {"pool_submit", "pool_join"}
    /\ k \in Running
    /\ \/ /\ \E r \in Transcriptions(tasks[k].seg) :
                tasks' = [tasks EXCEPT ![k].state = "ok",
                                       ![k].value = Process(r, tasks[k].seg)]
          /\ hist' = hist
       \/ /\ tasks' = [tasks EXCEPT ![k].state = "failed"]
          /\ hist' = [hist EXCEPT !.failed = @ \cup {CurName}]
    /\ done_order' = Append(done_order, k)
    /\ UNCHANGED <<args, world, runs, idx, fs, audio, speech_timestamps,
                   transcribe_results, srtVars, subs, txtVars, pc>>

\* pool.join() returns once every task has finished.
PoolJoin ==
    /\ pc = "pool_join"
    /\ \A k \in 1..Len(tasks) : tasks[k].state \in {"ok", "failed"}
    /\ pc' = "pool_get"
    /\ UNCHANGED <<runVars, fs, transcribe_results, srtVars, subs, txtVars, hist>>

\* Gather handing the results out in the order the workers finished.
GatherByCompletion(t) ==
    IF \E k \in 1..Len(t) : t[k].state = "failed"
    THEN [raised |-> TRUE, value |-> <<>>]
    ELSE [raised |-> FALSE, value |-> [k \in 1..Len(t) |-> t[done_order[k]].value]]

\* Gather leaving the failed tasks out instead of raising.
GatherSuccessful(t) ==
    LET Ok(x) == x.state = "ok"
        good == SelectSeq(t, Ok)
    IN [raised |-> FALSE, value |-> [k \in 1..Len(good) |-> good[k].value]]

\* [i.get() for i in res]: get re-raises the exception of a failed task;
\* otherwise the values, in the order of res.
Gather(t) ==
    IF \E k \in 1..Len(t) : t[k].state = "failed"
    THEN [raised |-> TRUE, value |-> <<>>]
    ELSE [raised |-> FALSE, value |-> [k \in 1..Len(t) |-> t[k].value]]

PoolGet ==
    /\ pc = "pool_get"
    /\ IF Gather(tasks).raised
       THEN /\ pc' = "crashed"
            /\ transcribe_results' = transcribe_results
       ELSE /\ pc' = "save_srt"
            /\ transcribe_results' = Gather(tasks).value
    /\ UNCHANGED <<runVars, fs, srtVars, subs, txtVars, hist>>

Transcribe ==
    \/ TranscribeEnter
    \/ SequentialStep
    \/ SequentialReturn
    \/ PoolSubmit
    \/ PoolClose
    \/ WorkerStart
    \/ \E k \in 1..Len(tasks) : WorkerFinish(k)
    \/ PoolJoin
    \/ PoolGet

(***************************************************************************)
(* _save_srt                                                               *)
(***************************************************************************)
\* _add_sub: the srt.Subtitle appended to subs.
AddSub(start, end, text) ==
    [index |-> 0, start |-> start, end |-> end, content |-> Convert(Strip(text))]

\* start = s["start"] + origin["start"] / self.sampling_rate
FragStart(origin, s) == s.start + origin.start

\* FragEnd without the clamp to the origin's end.
FragEndUnclamped(origin, s) == s.end + origin.start

\* end = min(s["end"] + origin["start"] / sr, origin["end"] / sr)
FragEnd(origin, s) ==
    Min(s.end + origin.start, origin.end)

\* if start > end: continue
Skipped(origin, s) == FragStart(origin, s) > FragEnd(origin, s)

\* NeedsMarker with a threshold of two seconds.
NeedsMarkerLate(prev, start) == start > prev + 2 * OneSecond

\* if start > prev_end + 1.0
NeedsMarker(prev, start) == start > prev + OneSecond

\* The entries one iteration of the inner loop appends to subs.
Emit(prev, origin, s) ==
    IF Skipped(origin, s) THEN <<>>
    ELSE (IF NeedsMarker(prev, FragStart(origin, s))
          THEN <<AddSub(prev, FragStart(origin, s), NoSpeech)>>
          ELSE <<>>)
         \o <<AddSub(FragStart(origin, s), FragEnd(origin, s), s.text)>>

\* NextPrevEnd without "prev_end = end".
NextPrevEndStale(prev, origin, s) == prev

\* prev_end after one iteration of the inner loop.
NextPrevEnd(prev, origin, s) ==
    IF Skipped(origin, s) THEN prev ELSE FragEnd(origin, s)

\* A time as the milliseconds of an "HH:MM:SS,mmm" timestamp, and back.
ToMillis(x) == (x * 1000) \div sampling_rate
FromMillis(ms) == (ms * sampling_rate) \div 1000

\* srt.compose: the entries, numbered from 1 in the order given, their times
\* written as timestamps.
Compose(entries) ==
    [k \in 1..Len(entries) |->
        [index |-> k, start |-> ToMillis(entries[k].start),
         end |-> ToMillis(entries[k].end), content |-> entries[k].content]]

\* srt.parse: the subtitles of a file.
Parse(data) ==
    [k \in 1..Len(data) |->
        [index |-> data[k].index, start |-> FromMillis(data[k].start),
         end |-> FromMillis(data[k].end), content |-> data[k].content]]

SrtBegin ==
    /\ pc = "save_srt"
    /\ subs' = <<>>
    /\ prov' = <<>>
    /\ prev_end' = 0
    /\ ri' = 1
    /\ si' = 1
    /\ pc' = "srt_loop"
    /\ UNCHANGED <<runVars, txtVars, fs, transcribe_results, hist>>

SrtFragment ==
    /\ pc = "srt_loop"
    /\ ri <= Len(transcribe_results)
    /\ si <= Len(transcribe_results[ri].segments)
    /\ LET origin == transcribe_results[ri].origin_timestamp
           s == transcribe_results[ri].segments[si]
           new == Emit(prev_end, origin, s)
       IN /\ subs' = subs \o new
          /\ prov' = prov \o [k \in 1..Len(new) |->
                                 IF k = Len(new) THEN <<ri, si>> ELSE <<0, 0>>]
          /\ prev_end' = NextPrevEnd(prev_end, origin, s)
    /\ si' = si + 1
    /\ UNCHANGED <<runVars, txtVars, fs, transcribe_results, ri, pc, hist>>

SrtNextResult ==
    /\ pc = "srt_loop"
    /\ ri <= Len(transcribe_results)
    /\ si > Len(transcribe_results[ri].segments)
    /\ ri' = ri + 1
    /\ si' = 1
    /\ UNCHANGED <<runVars, txtVars, fs, transcribe_results, prev_end, subs,
                   prov, pc, hist>>

SrtWrite ==
    /\ pc = "srt_loop"
    /\ ri > Len(transcribe_results)
    /\ fs' = [fs EXCEPT ![Path(CurName, ".srt")] = File(Compose(subs))]
    /\ hist' = [hist EXCEPT !.written = @ \cup {Path(CurName, ".srt")}]
    /\ pc' = "save_md"
    /\ UNCHANGED <<runVars, srtVars, txtVars, transcribe_results, subs>>

SaveSrt == SrtBegin \/ SrtFragment \/ SrtNextResult \/ SrtWrite

\* The loops of _save_srt as a function: the entries built for results, from
\* fragment f of result r on, given the entries and prev_end so far.
RECURSIVE EntriesFrom(_, _, _, _, _)
EntriesFrom(results, r, f, prev, acc) ==
    IF r > Len(results) THEN acc
    ELSE IF f > Len(results[r].segments)
         THEN EntriesFrom(results, r + 1, 1, prev, acc)
         ELSE LET origin == results[r].origin_timestamp
                  s == results[r].segments[f]
              IN EntriesFrom(results, r, f + 1, NextPrevEnd(prev, origin, s),
                             acc \o Emit(prev, origin, s))

EntriesOf(results) == EntriesFrom(results, 1, 1, 0, <<>>)

(***************************************************************************)
(* _save_md and _save_full_text                                            *)
(***************************************************************************)
BlockBudget == 1000

\* md.add_video(os.path.basename(video_fn))
VideoLine(input) == [kind |-> "video", file |-> input]

\* md.add_task(False, f"{pre:11} {s.content.strip()}") with
\* pre = f"[{s.index},{sec // 60:02d}:{sec % 60:02d}]", sec = s.start.seconds
TaskLine(s) ==
    LET sec == s.start \div sampling_rate
    IN [kind |-> "task", checked |-> FALSE, index |-> s.index,
        min |-> sec \div 60, sec |-> sec % 60, text |-> Strip(s.content)]

MdDocument(list, input) ==
    <<[kind |-> "done_editing", checked |-> FALSE], VideoLine(input),
      [kind |-> "text", file |-> Path(Splitext(input), ".srt")]>>
    \o [k \in 1..Len(list) |-> TaskLine(list[k])]

SaveMd ==
    /\ pc = "save_md"
    /\ fs' = [fs EXCEPT ![Path(CurName, ".md")] =
                 File(MdDocument(Parse(fs[Path(CurName, ".srt")].data), CurInput))]
    /\ hist' = [hist EXCEPT !.written = @ \cup {Path(CurName, ".md")}]
    /\ pc' = "full_text"
    /\ UNCHANGED <<runVars, transcribe_results, srtVars, subs, txtVars>>

\* Lines 198-209: parse the .srt file, start the document with the video
\* line, remove an existing full-text file.
FullTextOpen ==
    /\ pc = "full_text"
    /\ parsed' = Parse(fs[Path(CurName, ".srt")].data)
    /\ md_lines' = <<VideoLine(CurInput)>>
    /\ fs' = [fs EXCEPT ![Path(CurName, "_full_text.md")] = Absent]
    /\ word_length' = 0
    /\ ti' = 1
    /\ pc' = "full_text_loop"
    /\ UNCHANGED <<runVars, transcribe_results, srtVars, subs, hist>>

\* One iteration of the loop over the parsed subtitles.  A file is the
\* sequence of its blocks; a block is the sequence of the lines it joins.
FullTextLine ==
    /\ pc = "full_text_loop"
    /\ ti <= Len(parsed)
    /\ LET text == Strip(parsed[ti].content)
           path == Path(CurName, "_full_text.md")
       IN IF text # NoSpeech
          THEN IF word_length + Length(text) > BlockBudget
               THEN /\ fs' = [fs EXCEPT ![path] =
                                 File(fs[path].data \o <<Append(md_lines, text)>>)]
                    /\ hist' = [hist EXCEPT !.written = @ \cup {path}]
                    /\ word_length' = 0
                    /\ md_lines' = <<>>
               ELSE /\ word_length' = word_length + Length(text)
                    /\ md_lines' = Append(md_lines, text)
                    /\ UNCHANGED <<fs, hist>>
          ELSE UNCHANGED <<fs, hist, word_length, md_lines>>
    /\ ti' = ti + 1
    /\ UNCHANGED <<runVars, transcribe_results, srtVars, subs, parsed, pc>>

\* The loop is over: _save_full_text returns.
FullTextReturn ==
    /\ pc = "full_text_loop"
    /\ ti > Len(parsed)
    /\ pc' = "saved"
    /\ UNCHANGED <<runVars, fs, transcribe_results, srtVars, subs, txtVars, hist>>

SaveFullText == FullTextOpen \/ FullTextLine \/ FullTextReturn

\* Line 58, and the for loop goes on to the next input.
RunNext ==
    /\ pc = "saved"
    /\ hist' = [hist EXCEPT !.completed = @ \cup {CurName}]
    /\ idx' = idx + 1
    /\ pc' = "gate"
    /\ UNCHANGED <<args, world, runs, fs, audio, speech_timestamps, tasks,
                   done_order, transcribe_results, srtVars, subs, txtVars>>

(***************************************************************************)
(* _save_srt on its own: every list of transcript results within the       *)
(* bounds, in any order.                                                   *)
(***************************************************************************)
Points == {k * sampling_rate : k \in 0..MaxPt}
Spans == {[start |-> a, end |-> b] : a \in Points, b \in Points}
\* The origin spans: non-empty slices of the buffer.
SrtSpans == {o \in Spans : o.start < o.end}
\* What the model may return as local start and end: whole seconds.
LocalPoints == {k * sampling_rate : k \in 0..MaxLocal}
Fragments == [start : LocalPoints, end : LocalPoints, text : {Speech}]

RECURSIVE FragmentSeqs(_)
FragmentSeqs(n) ==
    IF n = 0 THEN {<<>>}
    ELSE {<<f>> \o t : f \in Fragments, t \in FragmentSeqs(n - 1)}

\* A result with m - 1 fragments.
ResultsOfSize(m) ==
    {[origin_timestamp |-> o, segments |-> f] :
        o \in SrtSpans, f \in FragmentSeqs(m - 1)}

\* The lists whose results and fragments number n together.
RECURSIVE ListsOfSize(_)
ListsOfSize(n) ==
    IF n = 0 THEN {<<>>}
    ELSE UNION {{<<r>> \o l : r \in ResultsOfSize(m), l \in ListsOfSize(n - m)} :
                   m \in 1..n}

ResultLists == UNION {ListsOfSize(n) : n \in 0..MaxSize}

InitSrt ==
    /\ pc = "save_srt"
    /\ args = [inputs |-> <<[base |-> "a", cut |-> FALSE, ext |-> "mp4"]>>,
               force |-> FALSE, vad |-> "0", device |-> "cuda"]
    /\ world = NoWorld
    /\ runs = 1
    /\ idx = 1
    /\ fs = [p \in Paths |-> Absent]
    /\ audio = MaxPt * sampling_rate
    /\ speech_timestamps = <<>>
    /\ tasks = <<>>
    /\ done_order = <<>>
    /\ transcribe_results \in ResultLists
    /\ ri = 1
    /\ si = 1
    /\ prev_end = 0
    /\ subs = <<>>
    /\ prov = <<>>
    /\ parsed = <<>>
    /\ ti = 1
    /\ word_length = 0
    /\ md_lines = <<>>
    /\ hist = NoHist

NextSrt == SrtBegin \/ SrtFragment \/ SrtNextResult \/ SrtWrite

SpecSrt == InitSrt /\ [][NextSrt]_vars

(***************************************************************************)
(* run as a whole: a few inputs, each with a readable or unreadable file   *)
(* and a voice-activity detector that finds nothing or two stretches.      *)
(***************************************************************************)
RECURSIVE SeqsUpTo(_, _)
SeqsUpTo(S, n) ==
    IF n = 0 THEN {<<>>}
    ELSE SeqsUpTo(S, n - 1)
         \cup {Append(q, x) : q \in {q \in SeqsUpTo(S, n - 1) : Len(q) = n - 1}, x \in S}

InputLists == SeqsUpTo(Inputs, MaxInputs) \ {<<>>}

RunWorlds ==
    [Inputs -> [readable : BOOLEAN, len : {RunLen}, speeches : RunSpeeches]]

InitCommon ==
    /\ fs = [p \in Paths |-> Absent]
    /\ speech_timestamps = <<>>
    /\ tasks = <<>>
    /\ done_order = <<>>
    /\ ri = 1
    /\ si = 1
    /\ prev_end = 0
    /\ subs = <<>>
    /\ prov = <<>>
    /\ parsed = <<>>
    /\ ti = 1
    /\ word_length = 0
    /\ md_lines = <<>>
    /\ hist = NoHist

Init ==
    /\ pc = "idle"
    /\ args \in [inputs : InputLists, force : {FALSE}, vad : {"0", "1", "auto"},
                 device : {"cpu", "cuda"}]
    /\ world \in {w \in RunWorlds :
                    \A i \in Inputs :
                       (\A k \in 1..Len(args.inputs) : args.inputs[k] # i)
                       => w[i] = NoWorld[i]}
    /\ runs = 0
    /\ idx = 1
    /\ audio = 0
    /\ transcribe_results = <<>>
    /\ InitCommon

Next ==
    \/ StartRun
    \/ RunGate
    \/ RunReturn
    \/ LoadAudio
    \/ Segment
    \/ Transcribe
    \/ SaveSrt
    \/ SaveMd
    \/ SaveFullText
    \/ RunNext

Spec == Init /\ [][Next]_vars

(***************************************************************************)
(* The segmentation stage of run (lines 42-50) on its own: every detector  *)
(* output within the bounds.                                               *)
(***************************************************************************)
MaxVadPt == 12
MaxSpeeches == 3

\* The detector's output: stretches in time order that do not overlap, on a
\* grid of a quarter of a second.
VadPoints == {k * (sampling_rate \div 4) : k \in 0..MaxVadPt}
VadSpans == {o \in [start : VadPoints, end : VadPoints] : o.start < o.end}

RECURSIVE SpeechSeqs(_)
SpeechSeqs(n) ==
    IF n = 0 THEN {<<>>}
    ELSE LET shorter == SpeechSeqs(n - 1)
             longest == {q \in shorter : Len(q) = n - 1}
             fits == {x \in longest \X VadSpans :
                        x[1] = <<>> \/ x[1][Len(x[1])].end <= x[2].start}
         IN shorter \cup {Append(x[1], x[2]) : x \in fits}

InitVad ==
    /\ pc = "load"
    /\ \E i \in Inputs :
          /\ args \in [inputs : {<<i>>}, force : {FALSE}, vad : {"0", "1", "auto"},
                       device : {"cuda"}]
          /\ \E q \in SpeechSeqs(MaxSpeeches) :
                world = [j \in Inputs |->
                            [readable |-> TRUE, len |-> MaxVadPt * (sampling_rate \div 4),
                             speeches |-> IF j = i THEN q ELSE <<>>]]
    /\ runs = 1
    /\ idx = 1
    /\ audio = 0
    /\ transcribe_results = <<>>
    /\ InitCommon

NextVad == LoadAudio \/ Segment

SpecVad == InitVad /\ [][NextVad]_vars

(***************************************************************************)
(* _save_full_text on its own: every subtitle file within the bounds.      *)
(***************************************************************************)
MaxSubs == 4
TextLengths == {400, 600, 601}
TextChoices ==
    {NoSpeech}
    \cup {[body |-> "text", len |-> n, pad |-> 0, trad |-> FALSE] : n \in TextLengths}

\* The entries _save_srt would have built: one per text, a second each.
EntriesWith(texts) ==
    [k \in 1..Len(texts) |->
        [index |-> 0, start |-> (k - 1) * sampling_rate, end |-> k * sampling_rate,
         content |-> texts[k]]]

InitText ==
    /\ pc = "full_text"
    /\ args = [inputs |-> <<[base |-> "a", cut |-> FALSE, ext |-> "mp4"]>>,
               force |-> FALSE, vad |-> "0", device |-> "cuda"]
    /\ world = NoWorld
    /\ runs = 1
    /\ idx = 1
    /\ audio = 0
    /\ transcribe_results = <<>>
    /\ \E texts \in SeqsUpTo(TextChoices, MaxSubs), old \in BOOLEAN :
          fs = [p \in Paths |->
                  IF p = Path(CurName, ".srt") THEN File(Compose(EntriesWith(texts)))
                  ELSE IF p = Path(CurName, "_full_text.md") /\ old
                       THEN File(<<<<VideoLine(CurInput)>>>>)
                       ELSE Absent]
    /\ speech_timestamps = <<>>
    /\ tasks = <<>>
    /\ done_order = <<>>
    /\ ri = 1
    /\ si = 1
    /\ prev_end = 0
    /\ subs = <<>>
    /\ prov = <<>>
    /\ parsed = <<>>
    /\ ti = 1
    /\ word_length = 0
    /\ md_lines = <<>>
    /\ hist = NoHist

NextText == FullTextOpen \/ FullTextLine \/ FullTextReturn

SpecText == InitText /\ [][NextText]_vars

(***************************************************************************)
(* Properties of _save_srt.                                                *)
(***************************************************************************)
IsMarker(k) == prov[k] = <<0, 0>>
IsFragment(k) == prov[k] # <<0, 0>>
OriginOf(k) == transcribe_results[prov[k][1]].origin_timestamp

\* Entries i < j are fragment entries with no fragment entry between them.
ConsecutiveFragments(i, j) ==
    /\ i < j
    /\ IsFragment(i)
    /\ IsFragment(j)
    /\ \A k \in (i + 1)..(j - 1) : IsMarker(k)

\* C1: for every two consecutive fragment entries A then B of subs, whatever
\* the order of the results: if B.start - A.end > 1.0 then exactly one
\* "< No Speech >" entry lies between them, from A.end to B.start.
C1_GapIsMarked ==
    \A i, j \in 1..Len(subs) :
        (ConsecutiveFragments(i, j) /\ subs[j].start - subs[i].end > OneSecond)
        => /\ j = i + 2
           /\ subs[i + 1].content = NoSpeech
           /\ subs[i + 1].start = subs[i].end
           /\ subs[i + 1].end = subs[j].start

\* _save_srt has returned with two fragment entries of different results more
\* than a second apart and the marker between them.
C1_Witness ==
    /\ pc = "save_md"
    /\ \E i \in 1..Len(subs) :
          /\ i + 2 <= Len(subs)
          /\ ConsecutiveFragments(i, i + 2)
          /\ prov[i][1] # prov[i + 2][1]
          /\ subs[i + 2].start - subs[i].end > OneSecond
          /\ subs[i + 1].start = subs[i].end

\* The fragments the loop has already gone through, as <<result, fragment>>.
Processed ==
    {<<r, f>> \in (1..Len(transcribe_results)) \X (1..MaxSize) :
        /\ f <= Len(transcribe_results[r].segments)
        /\ \/ pc = "save_md"
           \/ pc = "srt_loop" /\ (r < ri \/ (r = ri /\ f < si))}

\* C2: every fragment entry ends at or before its result's origin end in
\* seconds, whatever local end the model returned; a fragment whose shifted
\* start exceeds its clamped end has no entry.
C2_ClampedToOrigin ==
    /\ \A k \in 1..Len(subs) :
          IsFragment(k) => subs[k].end <= OriginOf(k).end
    /\ \A p \in Processed :
          LET o == transcribe_results[p[1]].origin_timestamp
              s == transcribe_results[p[1]].segments[p[2]]
              shifted == s.start + o.start
              clamped == Min(s.end + o.start, o.end)
          IN (shifted > clamped) => \A k \in 1..Len(prov) : prov[k] # p

\* _save_srt has returned; one fragment whose local end lies beyond its slice
\* was emitted ending at the origin's end, and another fragment was dropped.
C2_Witness ==
    /\ pc = "save_md"
    /\ \E k \in 1..Len(subs) :
          /\ IsFragment(k)
          /\ LET o == OriginOf(k)
                 s == transcribe_results[prov[k][1]].segments[prov[k][2]]
             IN /\ s.end + o.start > o.end
                /\ subs[k].end = o.end
    /\ \E p \in Processed :
          /\ \A k \in 1..Len(prov) : prov[k] # p
          /\ LET s == transcribe_results[p[1]].segments[p[2]]
             IN s.start <= s.end

\* The fragments of every result are non-decreasing in local_start.
StartsNonDecreasing(results) ==
    \A r \in 1..Len(results) :
        \A f \in 2..Len(results[r].segments) :
            results[r].segments[f - 1].start <= results[r].segments[f].start

\* Every entry of subs starts at or after the end, and the start, of the one
\* before it.
NoOverlap ==
    \A k \in 2..Len(subs) :
        /\ subs[k].start >= subs[k - 1].end
        /\ subs[k].start >= subs[k - 1].start

\* C3 as stated: whenever the fragments of each result are non-decreasing in
\* local_start, the entries are non-decreasing in start and do not overlap.
C3_NoOverlapAsStated == StartsNonDecreasing(transcribe_results) => NoOverlap

\* The results are in time order and their origin spans do not overlap.
Chronological(results) ==
    \A r \in 2..Len(results) :
        results[r - 1].origin_timestamp.end <= results[r].origin_timestamp.start

\* Within every result each fragment ends no earlier than it starts and starts
\* no earlier than the fragment before it ends.
FragmentsSequential(results) ==
    \A r \in 1..Len(results) :
        \A f \in 1..Len(results[r].segments) :
            /\ results[r].segments[f].start <= results[r].segments[f].end
            /\ f > 1 => results[r].segments[f - 1].end <= results[r].segments[f].start

\* C3 as amended: for results in time order with non-overlapping origins,
\* whose fragments are well formed and do not overlap one another, the
\* entries (markers included) are non-decreasing in start, each starts at or
\* after the previous one's end, and each ends no earlier than it starts.
C3_NoOverlapChronological ==
    (Chronological(transcribe_results) /\ FragmentsSequential(transcribe_results))
    => /\ NoOverlap
       /\ \A k \in 1..Len(subs) : subs[k].start <= subs[k].end

\* _save_srt has returned for two results in time order, the first with a
\* fragment clamped to its origin's end, with a marker before the second's.
C3_Witness ==
    /\ pc = "save_md"
    /\ Chronological(transcribe_results)
    /\ FragmentsSequential(transcribe_results)
    /\ \E k \in 1..Len(subs) :
          /\ k + 2 <= Len(subs)
          /\ IsFragment(k)
          /\ IsMarker(k + 1)
          /\ prov[k][1] # prov[k + 2][1]
          /\ LET s == transcribe_results[prov[k][1]].segments[prov[k][2]]
             IN s.end + OriginOf(k).start > subs[k].end

(***************************************************************************)
(* Properties of _transcribe and run.                                      *)
(***************************************************************************)
\* C4 as amended: the list _transcribe returns has one result per span, in
\* the order of the spans, in the sequential and in the parallel branch.
C4_InputOrder ==
    pc = "save_srt"
    => /\ Len(transcribe_results) = Len(speech_timestamps)
       /\ \A k \in 1..Len(transcribe_results) :
             transcribe_results[k].origin_timestamp = speech_timestamps[k]

\* _transcribe has returned from the parallel branch after the workers
\* finished the second span before the first.
C4_Witness ==
    /\ pc = "save_srt"
    /\ Parallel
    /\ done_order = <<2, 1>>
    /\ transcribe_results[1].origin_timestamp = speech_timestamps[1]

\* C4 as stated: input order from the sequential branch, the workers'
\* finishing order from the parallel branch.
C4_CompletionOrderAsStated ==
    pc = "save_srt"
    => /\ Len(transcribe_results) = Len(speech_timestamps)
       /\ \A k \in 1..Len(transcribe_results) :
             transcribe_results[k].origin_timestamp =
                 IF Parallel THEN speech_timestamps[done_order[k]]
                 ELSE speech_timestamps[k]

\* C5: once run has completed for an input, a pass of the for loop over that
\* input with force unset goes straight on to the next input: no file is
\* written or removed, no audio is loaded and nothing is detected or
\* transcribed.
C5_SecondRunSkips ==
    [][(/\ pc = "gate"
        /\ idx <= Len(args.inputs)
        /\ Splitext(args.inputs[idx]) \in hist.completed
        /\ ~args.force)
       => /\ fs' = fs
          /\ pc' = "gate"
          /\ idx' = idx + 1
          /\ UNCHANGED <<audio, speech_timestamps, tasks, transcribe_results>>]_vars

\* A second call of run, force unset, has just passed over an input that the
\* first call completed, and has written nothing.
C5_Witness ==
    /\ pc = "gate"
    /\ runs = 2
    /\ ~args.force
    /\ idx > 1
    /\ Splitext(args.inputs[idx - 1]) \in hist.completed
    /\ (idx - 1) \in hist.visited
    /\ hist.written = {}
    /\ fs[Path(Splitext(args.inputs[idx - 1]), ".srt")].exists

\* C6: when run is over, every input of args.inputs has been reached, whether
\* or not an earlier one failed.
C6_LaterInputsProcessed ==
    pc \in {"done", "crashed"} => hist.visited = 1..Len(args.inputs)

\* C7: no output file is written for an input one of whose segments failed
\* to transcribe; when the subtitle file has just been written every span has
\* its result, and in the parallel branch every task succeeded.
C7_NoPartialOutput ==
    /\ (pc \notin {"idle", "done"} /\ idx <= Len(args.inputs)
        /\ Splitext(args.inputs[idx]) \in hist.failed)
       => hist.written = {}
    /\ pc = "save_md"
       => /\ Len(transcribe_results) = Len(speech_timestamps)
          /\ Parallel => \A k \in 1..Len(tasks) : tasks[k].state = "ok"

\* In the parallel branch one task succeeded, another failed, and run ended
\* on the exception with nothing written for the input.
C7_Witness ==
    /\ pc = "crashed"
    /\ Parallel
    /\ \E j, k \in 1..Len(tasks) : tasks[j].state = "ok" /\ tasks[k].state = "failed"
    /\ CurName \in hist.failed
    /\ hist.written = {}
    /\ ~fs[Path(CurName, ".srt")].exists

\* The results ordered by origin.start (a stable insertion sort).
RECURSIVE InsertByStart(_, _)
InsertByStart(sorted, r) ==
    IF sorted = <<>> THEN <<r>>
    ELSE IF sorted[Len(sorted)].origin_timestamp.start <= r.origin_timestamp.start
         THEN Append(sorted, r)
         ELSE Append(InsertByStart(SubSeq(sorted, 1, Len(sorted) - 1), r),
                     sorted[Len(sorted)])

RECURSIVE SortedPrefix(_, _)
SortedPrefix(results, n) ==
    IF n = 0 THEN <<>> ELSE InsertByStart(SortedPrefix(results, n - 1), results[n])

SortByOriginStart(results) == SortedPrefix(results, Len(results))

Reorderings(results) ==
    {[k \in 1..Len(results) |-> results[f[k]]] :
        f \in {g \in [1..Len(results) -> 1..Len(results)] :
                 \A a, b \in 1..Len(results) : g[a] = g[b] => a = b}}

\* C8 as stated: _save_srt sorts by origin.start first, so for every
\* permutation of the list it received it builds the entries it builds for
\* the list ordered by origin.start.
C8_SortsAsStated ==
    pc = "save_md"
    => \A q \in Reorderings(transcribe_results) :
          EntriesOf(q) = EntriesOf(SortByOriginStart(transcribe_results))

\* C8 as amended: _save_srt does not sort, it goes through the results in
\* the order received; the list run hands it is in span order from either
\* branch of _transcribe, so the entries it builds in run are those of the
\* list ordered by origin.start.
C8_RunOrderIsChronological ==
    pc = "save_md" => subs = EntriesOf(SortByOriginStart(transcribe_results))

\* run has written the subtitles of two results whose tasks finished in the
\* opposite order, with a marker between their fragments.
C8_Witness ==
    /\ pc = "save_md"
    /\ Parallel
    /\ done_order = <<2, 1>>
    /\ Len(subs) = 3
    /\ subs[2].content = NoSpeech
    /\ subs[2].start = subs[1].end
    /\ subs[2].end = subs[3].start

(***************************************************************************)
(* Properties of the segmentation stage.                                   *)
(***************************************************************************)
\* C9: the spans handed to _transcribe are never empty; when
\* _detect_voice_activity ran, they are the single span {0, len(audio)} if
\* fewer than two spans are left after remove-short, expand and merge, and
\* the spans left otherwise; when it did not run, as with vad "0", they are
\* the single span {0, len(audio)}.
C9_NeverEmpty ==
    pc = "transcribe"
    => LET left == Cleaned(world[CurInput].speeches, audio)
           whole == <<[start |-> 0, end |-> audio]>>
       IN /\ Len(speech_timestamps) >= 1
          /\ hist.vad => /\ Len(left) < 2 => speech_timestamps = whole
                         /\ Len(left) >= 2 => speech_timestamps = left
          /\ ~hist.vad => speech_timestamps = whole
          /\ args.vad = "0" => ~hist.vad

\* _detect_voice_activity ran and exactly one span, shorter than the buffer,
\* was left: the whole buffer was returned instead.
C9_Witness ==
    /\ pc = "transcribe"
    /\ hist.vad
    /\ LET left == Cleaned(world[CurInput].speeches, audio)
       IN /\ Len(left) = 1
          /\ left # speech_timestamps
    /\ speech_timestamps = <<[start |-> 0, end |-> audio]>>

(***************************************************************************)
(* Properties of _save_full_text.                                          *)
(***************************************************************************)
RECURSIVE Flatten(_)
Flatten(blocks) ==
    IF blocks = <<>> THEN <<>> ELSE Head(blocks) \o Flatten(Tail(blocks))

\* The subtitle texts in the full-text file, in order (the video line left
\* out); an absent file has none.
FileTexts(file) ==
    LET IsText(l) == l \notin {VideoLine(i) : i \in Inputs}
    IN SelectSeq(Flatten(file.data), IsText)

\* The texts of the subtitles that are not gap markers, in order.
SpokenTexts(list) ==
    LET Spoken(s) == Strip(s.content) # NoSpeech
        kept == SelectSeq(list, Spoken)
    IN [k \in 1..Len(kept) |-> Strip(kept[k].content)]

\* C10: once _save_full_text has returned, the file holds the text of every
\* subtitle that is not a gap marker, each once and in subtitle order, and no
\* marker text.
C10_FullTextHasEveryEntry ==
    pc = "saved"
    => FileTexts(fs[Path(CurName, "_full_text.md")]) = SpokenTexts(parsed)

====
